---- MODULE Spec2Model ----
(***************************************************************************)
(* Model of the document-processing mock API (api/main.py): the Flask       *)
(* handlers root, health, process_document, list_documents, get_document,  *)
(* the storage directory they share, and the environment they read.        *)
(*                                                                         *)
(* Two deployments of the service run side by side on the same requests    *)
(* and the same filesystem outcomes.  Deployment 1 is the service under    *)
(* study; deployment 2 differs from it at most in EMBEDDINGS_API_KEY and   *)
(* exists to state what a response may reveal about that key.              *)
(***************************************************************************)
EXTENDS Integers, Sequences, FiniteSets, TLC

\* Bounds of the model.
MaxCalls == 2
MaxRuns == 3

Deployments == {1, 2}

(***************************************************************************)
(* Configuration (main.py lines 14-23), at the defaults of os.getenv.      *)
(***************************************************************************)
ENVIRONMENT == "development"
LOG_LEVEL == "INFO"
MODEL_NAME == "not-configured"
MAX_DOCUMENT_SIZE_MB == 10
PROCESSING_TIMEOUT_SECONDS == 15
STORAGE_PATH == "/tmp/processed"

\* 1024 * 1024, the divisor of line 103.
BytesPerMB == 1024 * 1024

\* The largest accepted size in bytes.
LimitBytes == MAX_DOCUMENT_SIZE_MB * BytesPerMB

(***************************************************************************)
(* Text.  A Python str is a sequence of runs [ch, n]: n >= 1 copies of a   *)
(* character of class ch.  The classes are                                 *)
(*    "a"     a non-whitespace character encoded in 1 byte,                *)
(*    " "     a whitespace character encoded in 1 byte,                    *)
(*    "e2"    a non-whitespace character encoded in 2 bytes,               *)
(* and a bytes value may also hold                                         *)
(*    "xff"   a byte that is not valid UTF-8.                              *)
(* Runs let a text of 10 MB be a value of the model.                       *)
(***************************************************************************)
Run(ch, n) == [ch |-> ch, n |-> n]

Utf8Width(ch) == IF ch = "e2" THEN 2 ELSE 1

IsSpace(ch) == ch = " "

IsValidUtf8(ch) == ch # "xff"

RECURSIVE StrLen(_)
\* len(content): the number of characters.
StrLen(s) == IF s = <<>> THEN 0 ELSE Head(s).n + StrLen(Tail(s))

RECURSIVE EncodeLen(_)
\* len(content.encode("utf-8")).
EncodeLen(s) ==
    IF s = <<>> THEN 0
    ELSE Head(s).n * Utf8Width(Head(s).ch) + EncodeLen(Tail(s))

RECURSIVE SplitFrom(_, _, _)
\* str.split() scanning left to right: cur is the word being read, acc the
\* words read so far.
SplitFrom(rest, cur, acc) ==
    IF rest = <<>>
    THEN IF cur = <<>> THEN acc ELSE Append(acc, cur)
    ELSE IF IsSpace(Head(rest).ch)
         THEN SplitFrom(Tail(rest), <<>>, IF cur = <<>> THEN acc ELSE Append(acc, cur))
         ELSE SplitFrom(Tail(rest), Append(cur, Head(rest)), acc)

\* content.split(): the list of whitespace-delimited words.
Split(s) == SplitFrom(s, <<>>, <<>>)

\* bytes.decode("utf-8", errors="ignore"): invalid bytes are dropped.
DecodeIgnore(b) == SelectSeq(b, LAMBDA r : IsValidUtf8(r.ch))

\* The literal "Sample document" of line 100: 6 letters, a space, 8 letters.
SampleDocument == <<Run("a", 6), Run(" ", 1), Run("a", 8)>>

(***************************************************************************)
(* Python and JSON values that are not text.                               *)
(***************************************************************************)
Str(s) == [type |-> "string", s |-> s]

Null == [type |-> "null"]

\* os.getenv("EMBEDDINGS_API_KEY"): None when unset, else a string of key
\* characters, " " being whitespace.
KeyUnset == [set |-> FALSE]

KeyValue(v) == [set |-> TRUE, v |-> v]

RECURSIVE LStrip(_)
LStrip(v) == IF v # <<>> /\ Head(v) = " " THEN LStrip(Tail(v)) ELSE v

RECURSIVE RStrip(_)
RStrip(v) ==
    IF v # <<>> /\ v[Len(v)] = " " THEN RStrip(SubSeq(v, 1, Len(v) - 1)) ELSE v

\* str.strip()
Strip(v) == RStrip(LStrip(v))

\* A flag that forgets to trim: a key of whitespace counts as configured.
ConfiguredWithoutStrip(k) == k.set /\ k.v # <<>>

\* _embeddings_key_configured(): bool(KEY and KEY.strip()).
_embeddings_key_configured(k) == k.set /\ k.v # <<>> /\ Strip(k.v) # <<>>

(***************************************************************************)
(* Requests.                                                               *)
(*   json: Content-Type application/json; body is what get_json(silent=    *)
(*         True) meets: unparseable text ("invalid"), a falsy value      *)
(*         ("null"), a truthy value that is no object ("array"), or an     *)
(*         object with some of the fields content and filename;            *)
(*   form: a form submission; files maps each file part's field name to    *)
(*         its bytes and file name (request.files);                        *)
(*   raw:  anything else; data is the body (request.data).                 *)
(***************************************************************************)
JsonRequest(body) == [kind |-> "json", body |-> body]

FormRequest(files) == [kind |-> "form", files |-> files]

RawRequest(data) == [kind |-> "raw", data |-> data]

JsonObject(fields) == [type |-> "object", fields |-> fields]

FilePart(bytes, filename) == [bytes |-> bytes, filename |-> filename]

\* request.files: the file parts of a form; none for other requests.
RequestFiles(req) == IF req.kind = "form" THEN req.files ELSE <<>>

\* request.data: the body that no parser consumed.  The form parser has read
\* the whole stream of a form submission by the time line 100 runs.
RequestData(req) == IF req.kind = "raw" THEN req.data ELSE <<>>

\* bool(FileStorage) is bool(self.filename).
FileTruthy(part) == part.filename # ""

\* Python truthiness of a parsed JSON body.
JsonTruthy(body) == body.type \in {"array", "object"} /\
    (body.type = "object" => DOMAIN body.fields # {})

\* dict.get(name, default)
DictGet(fields, name, default) ==
    IF name \in DOMAIN fields THEN fields[name] ELSE default

\* A file check that asks only whether a part named "file" exists.
ResolveInputAnyFilename(req) ==
    IF req.kind = "json"
    THEN LET body == req.body
             data == IF JsonTruthy(body) THEN body ELSE JsonObject(<<>>)
         IN  IF data.type # "object"
             THEN [outcome |-> "crash"]
             ELSE [outcome |-> "ok",
                   content |-> DictGet(data.fields, "content", Str(<<>>)),
                   filename |-> DictGet(data.fields, "filename", "document.txt")]
    ELSE IF DOMAIN RequestFiles(req) # {}
    THEN IF "file" \notin DOMAIN RequestFiles(req)
         THEN [outcome |-> "missing"]
         ELSE LET file == RequestFiles(req)["file"]
              IN  [outcome |-> "ok",
                   content |-> Str(DecodeIgnore(file.bytes)),
                   filename |-> IF file.filename # "" THEN file.filename
                                ELSE "document.txt"]
    ELSE LET text == DecodeIgnore(RequestData(req))
         IN  [outcome |-> "ok",
              content |-> Str(IF text = <<>> THEN SampleDocument ELSE text),
              filename |-> "document.txt"]

\* Lines 89-101: the content and filename the handler works on.
\*   outcome "ok":      content (a Python value) and filename;
\*   outcome "missing": the 400 of line 96;
\*   outcome "crash":   data.get raises AttributeError (data is a list).
ResolveInput(req) ==
    IF req.kind = "json"
    THEN LET body == req.body
             data == IF JsonTruthy(body) THEN body ELSE JsonObject(<<>>)
         IN  IF data.type # "object"
             THEN [outcome |-> "crash"]
             ELSE [outcome |-> "ok",
                   content |-> DictGet(data.fields, "content", Str(<<>>)),
                   filename |-> DictGet(data.fields, "filename", "document.txt")]
    ELSE IF DOMAIN RequestFiles(req) # {}
    THEN IF "file" \notin DOMAIN RequestFiles(req)
            \/ ~FileTruthy(RequestFiles(req)["file"])
         THEN [outcome |-> "missing"]
         ELSE LET file == RequestFiles(req)["file"]
              IN  [outcome |-> "ok",
                   content |-> Str(DecodeIgnore(file.bytes)),
                   filename |-> IF file.filename # "" THEN file.filename
                                ELSE "document.txt"]
    ELSE LET text == DecodeIgnore(RequestData(req))
         IN  [outcome |-> "ok",
              content |-> Str(IF text = <<>> THEN SampleDocument ELSE text),
              filename |-> "document.txt"]

\* A size check that also rejects a content of exactly the limit.
ExceedsMaxSizeInclusive(content) == EncodeLen(content) >= LimitBytes

\* Lines 103-104: len(content.encode("utf-8")) / (1024 * 1024) >
\* MAX_DOCUMENT_SIZE_MB.  The division by 2^20 is exact in binary floating
\* point, so the comparison is the comparison of the byte counts.
ExceedsMaxSize(content) == EncodeLen(content) > LimitBytes

\* Lines 116-133 and 147-151; confidences and scores in hundredths.
Analysis ==
    [entities |->
        << [text |-> "Azure", type |-> "Technology", confidence |-> 95],
           [text |-> "Container Apps", type |-> "Service", confidence |-> 93],
           [text |-> "document", type |-> "Concept", confidence |-> 87] >>,
     key_phrases |->
        << "document processing", "container deployment",
           "secrets and configuration", "revision management" >>,
     sentiment |->
        [overall |-> "neutral", confidence |-> 78,
         scores |-> [positive |-> 22, neutral |-> 68, negative |-> 10]]]

\* Statistics that report the byte size as the character count.
StatisticsBytesAsChars(content) ==
    [character_count |-> EncodeLen(content),
     word_count |-> Len(Split(content)),
     size_bytes |-> EncodeLen(content)]

\* Lines 113-114 and 142-146.
Statistics(content) ==
    [character_count |-> StrLen(content),
     word_count |-> Len(Split(content)),
     size_bytes |-> EncodeLen(content)]

\* Lines 135-156: the result dict, before its storage entry is set.
BuildResult(k, docId, timestamp, filename, content) ==
    [document_id |-> docId,
     filename |-> filename,
     processed_at |-> timestamp,
     environment |-> ENVIRONMENT,
     model |-> [name |-> MODEL_NAME],
     secrets |-> [embeddings_api_key_configured |-> _embeddings_key_configured(k)],
     statistics |-> Statistics(content),
     analysis |-> Analysis,
     processing_config |->
        [timeout_seconds |-> PROCESSING_TIMEOUT_SECONDS,
         max_size_mb |-> MAX_DOCUMENT_SIZE_MB]]

\* The 413 body of line 107.
TooLargeBody ==
    [error |-> "Document exceeds maximum size of MAX_DOCUMENT_SIZE_MB MB"]

\* What Flask answers when a handler raises.
InternalServerError == [html |-> "Internal Server Error"]

\* Lines 84-156 for one request: an early response (400, 413, or the 500 of a
\* handler that raised), or status 200 with the content read and the result
\* built so far.
\* content.encode raises on a content that is not a str.
ProcessStart(k, req, docId, timestamp) ==
    LET in == ResolveInput(req)
    IN  IF in.outcome = "missing"
        THEN [status |-> 400, body |-> [error |-> "No file provided"]]
        ELSE IF in.outcome = "crash" \/ in.content.type # "string"
        THEN [status |-> 500, body |-> InternalServerError]
        ELSE IF ExceedsMaxSize(in.content.s)
        THEN [status |-> 413, body |-> TooLargeBody]
        ELSE [status |-> 200,
              content |-> in.content.s,
              body |-> BuildResult(k, docId, timestamp, in.filename, in.content.s)]

(***************************************************************************)
(* The storage directory: a map from file names to files.  A name is a     *)
(* sequence of tokens, ".json" being one token; a file holds the JSON      *)
(* tokens written so far and the time of its last change.                  *)
(***************************************************************************)
\* f"{doc_id}.json"
JsonName(docId) == docId \o <<".json">>

\* filename.endswith(".json")
EndsWithJson(name) == name # <<>> /\ name[Len(name)] = ".json"

\* filename.replace(".json", ""): every occurrence is removed.
ReplaceJson(name) == SelectSeq(name, LAMBDA t : t # ".json")

\* The insertion order of the keys of result.
KeyOrder ==
    << "document_id", "filename", "processed_at", "environment", "model",
       "secrets", "statistics", "analysis", "processing_config", "storage" >>

\* json.dump(obj, f, indent=2): an opening brace, the members in insertion
\* order, a closing brace.
JsonDump(obj) ==
    LET keys == SelectSeq(KeyOrder, LAMBDA key : key \in DOMAIN obj)
    IN  << <<"{">> >> \o [i \in 1 .. Len(keys) |-> <<keys[i], obj[keys[i]]>>]
        \o << <<"}">> >>

\* json.load(f): the object, or a JSONDecodeError for a text that is not a
\* complete object.
JsonLoad(data) ==
    IF Len(data) >= 2 /\ Len(data[1]) = 1 /\ Len(data[Len(data)]) = 1
    THEN [ok |-> TRUE,
          value |-> [key \in {data[i][1] : i \in 2 .. Len(data) - 1} |->
                       data[CHOOSE i \in 2 .. Len(data) - 1 : data[i][1] = key][2]]]
    ELSE [ok |-> FALSE, error |-> "Expecting value"]

File(data, ctime) == [data |-> data, ctime |-> ctime]

Put(f, k, v) == [x \in DOMAIN f \cup {k} |-> IF x = k THEN v ELSE f[x]]

Without(f, k) == [x \in DOMAIN f \ {k} |-> f[x]]

\* _ensure_storage_directory(): os.makedirs(exist_ok=True) succeeds on a
\* directory that exists; otherwise mk is whether it can be created.
_ensure_storage_directory(exists, mk) == exists \/ mk

\* os.path.join(STORAGE_PATH, name)
PathJoin(name) == [dir |-> STORAGE_PATH, name |-> name]

\* A record that is completed with its storage entry before it is written.
PersistedWithStorage(result) ==
    [x \in DOMAIN result \cup {"storage"} |->
        IF x = "storage"
        THEN [saved |-> TRUE, path |-> PathJoin(JsonName(<<result.document_id>>))]
        ELSE result[x]]

\* Line 163: what json.dump is given, the result without a storage entry.
Persisted(result) == result

\* result["storage"] = storage, lines 164, 168, 170.
WithStorage(result, storage) ==
    [x \in DOMAIN result \cup {"storage"} |->
        IF x = "storage" THEN storage ELSE result[x]]

(***************************************************************************)
(* Responses.  resp[d] is the response the last step sent in deployment d, *)
(* NoResponse when the step sent none.                                     *)
(***************************************************************************)
Response(op, arg, status, body) ==
    [op |-> op, arg |-> arg, status |-> status, body |-> body]

NoResponse == [op |-> "none"]

\* Lines 45-64.
RootBody(k) ==
    [service |-> "AI Document Processing API",
     status |-> "running",
     version |-> "1.0.0",
     environment |-> ENVIRONMENT,
     model |-> [name |-> MODEL_NAME],
     secrets |-> [embeddings_api_key_configured |-> _embeddings_key_configured(k)],
     config |->
        [max_document_size_mb |-> MAX_DOCUMENT_SIZE_MB,
         processing_timeout_seconds |-> PROCESSING_TIMEOUT_SECONDS,
         log_level |-> LOG_LEVEL,
         storage_path |-> STORAGE_PATH]]

\* Lines 184-196: one entry per listed file, keyed here by the file it came
\* from since the order of os.listdir is unspecified.
ListEntries(dir) ==
    [name \in {n \in DOMAIN dir : EndsWithJson(n)} |->
        [document_id |-> ReplaceJson(name),
         size_bytes |-> Len(dir[name].data),
         created_at |-> dir[name].ctime]]

\* Lines 180-199.
ListResponse(dir, available, listable) ==
    IF ~available
    THEN Response("list", <<>>, 200,
                  [documents |-> <<>>, error |-> "Storage not available"])
    ELSE IF ~listable
    THEN Response("list", <<>>, 200,
                  [documents |-> <<>>, error |-> "Permission denied"])
    ELSE Response("list", <<>>, 200,
                  [documents |-> ListEntries(dir),
                   count |-> Cardinality(DOMAIN ListEntries(dir))])

\* Lines 207-216.  A file that exists is read as it is at that moment.
GetResponse(dir, docId) ==
    IF JsonName(docId) \notin DOMAIN dir
    THEN Response("get", docId, 404, [error |-> "Document not found"])
    ELSE LET parsed == JsonLoad(dir[JsonName(docId)].data)
         IN  IF parsed.ok
             THEN Response("get", docId, 200, parsed.value)
             ELSE Response("get", docId, 500, [error |-> parsed.error])

\* A write failure that escapes the handler.
SaveFailedRaises(req, result, message) ==
    Response("process", req, 500, InternalServerError)

\* Lines 166-168 and 172: the write failed, the record is returned anyway.
SaveFailedResponse(req, result, message) ==
    Response("process", req, 200,
             WithStorage(result, [saved |-> FALSE, error |-> message]))

\* Lines 169-172: the directory is not available, no write is attempted.
StorageUnavailableResponse(req, result) ==
    Response("process", req, 200,
             WithStorage(result, [saved |-> FALSE, reason |-> "Storage not available"]))

\* Lines 164 and 172.
SavedResponse(req, result) ==
    Response("process", req, 200,
             WithStorage(result,
                [saved |-> TRUE,
                 path |-> PathJoin(JsonName(<<result.document_id>>))]))

(***************************************************************************)
(* Inputs.                                                                 *)
(***************************************************************************)
SeqsUpTo(S, n) == UNION {[1 .. k -> S] : k \in 0 .. n}

\* The values of uuid.uuid4(), in the order they are drawn: never repeated.
Uuids == << "u1", "u2", "u3", "u4", "u5", "u6" >>

TextRuns ==
    { Run("a", 1), Run(" ", 1), Run("e2", LimitBytes \div 2),
      Run("a", LimitBytes - 1) }

ByteRuns == TextRuns \cup {Run("xff", 1)}

Texts == SeqsUpTo(TextRuns, MaxRuns)

ByteStrings == SeqsUpTo(ByteRuns, MaxRuns)

\* The values a JSON object may give for content.
JsonContents == {Str(t) : t \in Texts} \cup {Null}

JsonBodies ==
    { [type |-> "invalid"], [type |-> "null"], [type |-> "array"],
      JsonObject(<<>>),
      JsonObject([name \in {"filename"} |-> "a.txt"]) }
    \cup { JsonObject([name \in {"content"} |-> c]) : c \in JsonContents }
    \cup { JsonObject([name \in {"content", "filename"} |->
                          IF name = "content" THEN c ELSE "a.txt"]) :
            c \in JsonContents }

OtherPart == FilePart(<<Run("a", 1)>>, "o.txt")

FormFiles ==
    { <<>>, [name \in {"other"} |-> OtherPart] }
    \cup { [name \in {"file"} |-> FilePart(b, fn)] :
            b \in ByteStrings, fn \in {"", "up.txt"} }
    \cup { [name \in {"file", "other"} |->
                IF name = "file" THEN FilePart(b, fn) ELSE OtherPart] :
            b \in ByteStrings, fn \in {"", "up.txt"} }

\* Every request of the input study.
Requests ==
    {JsonRequest(body) : body \in JsonBodies}
    \cup {FormRequest(files) : files \in FormFiles}
    \cup {RawRequest(data) : data \in ByteStrings}

\* The requests of the multi-request runs: {"content": "hello world",
\* "filename": "a.txt"} and an empty raw body.
CoreRequests ==
    { JsonRequest(JsonObject([name \in {"content", "filename"} |->
          IF name = "content"
          THEN Str(<<Run("a", 5), Run(" ", 1), Run("a", 5)>>)
          ELSE "a.txt"])),
      RawRequest(<<>>) }

\* The ids a client may ask GET /documents/<doc_id> for.
DocIds == {<<Uuids[i]>> : i \in 1 .. MaxCalls + 1} \cup {<<"x">>}

\* How much of the text a failed json.dump leaves in the file.
TruncatedAt == {0, 4}

(***************************************************************************)
(* State.                                                                  *)
(***************************************************************************)
VARIABLES
    key,        \* key[d]: EMBEDDINGS_API_KEY of deployment d
    files,      \* files[d]: the files of STORAGE_PATH, by name
    pending,    \* pending[d]: the process_document calls past line 158, by id,
                \* each with its request, content, result and next step
    resp,       \* resp[d]: the response sent by the last step
    posted,     \* posted[d]: the bodies POST /process returned with saved true
    dirExists,  \* whether STORAGE_PATH exists
    nextId      \* the number of the next uuid4 and timestamp

vars == <<key, files, pending, resp, posted, dirExists, nextId>>

InitWith(k1, k2, dir) ==
    /\ key = [d \in Deployments |-> IF d = 1 THEN k1 ELSE k2]
    /\ files = [d \in Deployments |-> dir]
    /\ pending = [d \in Deployments |-> <<>>]
    /\ resp = [d \in Deployments |-> NoResponse]
    /\ posted = [d \in Deployments |-> <<>>]
    /\ dirExists = (DOMAIN dir # {})
    /\ nextId = 1

\* The keys of the runs that do not compare two keys: unset, and set.
DeployedKeys == {KeyUnset, KeyValue(<<"k">>)}

\* Storage directories that hold files when the service starts.
ExistingDirs ==
    { [name \in {<<"x", ".json", ".json">>} |-> File(<<>>, 0)],
      [name \in {<<"x", ".json">>, <<"notes", ".txt">>} |->
          File(JsonDump([document_id |-> "x"]), 0)] }

\* A fresh container: no storage directory yet.
Init == \E k \in DeployedKeys : InitWith(k, k, <<>>)

\* The pairs of different keys that are both empty after trimming (or
\* unset), and those that are both not.
TwinKeys ==
    { <<KeyUnset, KeyValue(<<>>)>>, <<KeyUnset, KeyValue(<<" ">>)>>,
      <<KeyValue(<<>>), KeyValue(<<" ">>)>>,
      <<KeyValue(<<"k">>), KeyValue(<<" ", "k">>)>>,
      <<KeyValue(<<"k">>), KeyValue(<<"j">>)>>,
      <<KeyValue(<<" ", "k">>), KeyValue(<<"j">>)>> }

\* Two deployments that differ in EMBEDDINGS_API_KEY alone.
InitTwin == \E pair \in TwinKeys : InitWith(pair[1], pair[2], <<>>)

\* A storage directory that outlived an earlier process, or that STORAGE_PATH
\* found in place.
InitDir == \E k \in DeployedKeys, dir \in ExistingDirs : InitWith(k, k, dir)

AtPc(d, id, pc) == id \in DOMAIN pending[d] /\ pending[d][id].pc = pc

\* POST /process, lines 84-158 (and 169-172 when the directory is not
\* available): uuid4 and the timestamp are drawn first, whatever follows.
process_document(req, mk) ==
    LET id == Uuids[nextId]
        start(d) == ProcessStart(key[d], req, id, nextId)
        available == _ensure_storage_directory(dirExists, mk)
    IN  /\ nextId <= Len(Uuids)
        /\ dirExists => mk
        /\ nextId' = nextId + 1
        /\ dirExists' = IF \E d \in Deployments : start(d).status = 200
                        THEN available ELSE dirExists
        /\ pending' = [d \in Deployments |->
              IF start(d).status = 200 /\ available
              THEN Put(pending[d], id,
                       [req |-> req, content |-> start(d).content,
                        result |-> start(d).body, pc |-> "open"])
              ELSE pending[d]]
        /\ resp' = [d \in Deployments |->
              IF start(d).status # 200
              THEN Response("process", req, start(d).status, start(d).body)
              ELSE IF ~available
              THEN StorageUnavailableResponse(req, start(d).body)
              ELSE NoResponse]
        /\ UNCHANGED <<key, files, posted>>

\* Lines 161-162: open(result_path, "w") creates the file, empty; when it
\* fails the handler answers through lines 166-172.
OpenResultFile(id, ok) ==
    /\ AtPc(1, id, "open")
    /\ files' = [d \in Deployments |->
          IF AtPc(d, id, "open") /\ ok
          THEN Put(files[d], JsonName(<<id>>), File(<<>>, nextId))
          ELSE files[d]]
    /\ pending' = [d \in Deployments |->
          IF ~AtPc(d, id, "open") THEN pending[d]
          ELSE IF ok THEN [pending[d] EXCEPT ![id].pc = "dump"]
          ELSE Without(pending[d], id)]
    /\ resp' = [d \in Deployments |->
          IF AtPc(d, id, "open") /\ ~ok
          THEN SaveFailedResponse(pending[d][id].req, pending[d][id].result,
                                  "Permission denied")
          ELSE NoResponse]
    /\ UNCHANGED <<key, posted, dirExists, nextId>>

\* Lines 163-172: json.dump writes the record and the handler answers; when
\* the write fails the file keeps the first cut tokens of the text.
DumpResult(id, ok, cut) ==
    /\ AtPc(1, id, "dump")
    /\ ok => cut = 0
    /\ files' = [d \in Deployments |->
          IF ~AtPc(d, id, "dump") THEN files[d]
          ELSE LET text == JsonDump(Persisted(pending[d][id].result))
               IN  Put(files[d], JsonName(<<id>>),
                       File(IF ok THEN text ELSE SubSeq(text, 1, cut), nextId))]
    /\ pending' = [d \in Deployments |->
          IF AtPc(d, id, "dump") THEN Without(pending[d], id) ELSE pending[d]]
    /\ resp' = [d \in Deployments |->
          IF ~AtPc(d, id, "dump") THEN NoResponse
          ELSE IF ok
          THEN SavedResponse(pending[d][id].req, pending[d][id].result)
          ELSE SaveFailedResponse(pending[d][id].req, pending[d][id].result,
                                  "No space left on device")]
    /\ posted' = [d \in Deployments |->
          IF AtPc(d, id, "dump") /\ ok
          THEN Put(posted[d], <<id>>,
                   SavedResponse(pending[d][id].req, pending[d][id].result).body)
          ELSE posted[d]]
    /\ UNCHANGED <<key, dirExists, nextId>>

\* GET /documents/<doc_id>, lines 202-216.
get_document(docId) ==
    /\ resp' = [d \in Deployments |-> GetResponse(files[d], docId)]
    /\ UNCHANGED <<key, files, pending, posted, dirExists, nextId>>

\* GET /documents, lines 175-199.
list_documents(mk, listable) ==
    /\ dirExists => mk
    /\ ~_ensure_storage_directory(dirExists, mk) => listable
    /\ dirExists' = _ensure_storage_directory(dirExists, mk)
    /\ resp' = [d \in Deployments |->
          ListResponse(files[d], _ensure_storage_directory(dirExists, mk), listable)]
    /\ UNCHANGED <<key, files, pending, posted, nextId>>

\* GET /, lines 45-64.
root ==
    /\ resp' = [d \in Deployments |-> Response("root", <<>>, 200, RootBody(key[d]))]
    /\ UNCHANGED <<key, files, pending, posted, dirExists, nextId>>

\* GET /health, lines 67-70.
health ==
    /\ resp' = [d \in Deployments |->
          Response("health", <<>>, 200, [status |-> "healthy"])]
    /\ UNCHANGED <<key, files, pending, posted, dirExists, nextId>>

Process == \E req \in CoreRequests, mk \in BOOLEAN :
    nextId <= MaxCalls /\ process_document(req, mk)

ProcessAny == \E req \in Requests, mk \in BOOLEAN :
    nextId <= 1 /\ process_document(req, mk)

Open == \E i \in 1 .. Len(Uuids), ok \in BOOLEAN : OpenResultFile(Uuids[i], ok)

Dump == \E i \in 1 .. Len(Uuids), ok \in BOOLEAN, cut \in TruncatedAt :
    DumpResult(Uuids[i], ok, cut)

Get == \E docId \in DocIds : get_document(docId)

List == \E mk \in BOOLEAN, listable \in BOOLEAN : list_documents(mk, listable)

Next == Process \/ Open \/ Dump \/ Get \/ List \/ root \/ health

Spec == Init /\ [][Next]_vars

\* One request drawn from every kind of input, and what follows it.
NextInput == ProcessAny \/ Open \/ Dump \/ Get \/ List \/ root \/ health

SpecInput == Init /\ [][NextInput]_vars

SpecTwin == InitTwin /\ [][Next]_vars

SpecDir == InitDir /\ [][Next]_vars

(***************************************************************************)
(* The claims.  What a claim calls the characters, words, bytes and input  *)
(* of a request is stated here on its own, apart from the handler's code.  *)
(***************************************************************************)
\* The number of characters of a text.
CharsOf(s) ==
    LET sum[i \in 0 .. Len(s)] == IF i = 0 THEN 0 ELSE sum[i - 1] + s[i].n
    IN  sum[Len(s)]

\* The number of bytes of the UTF-8 encoding of a text.
BytesOf(s) ==
    LET sum[i \in 0 .. Len(s)] ==
            IF i = 0 THEN 0
            ELSE sum[i - 1] + (IF s[i].ch = "e2" THEN 2 * s[i].n ELSE s[i].n)
    IN  sum[Len(s)]

\* The number of whitespace-delimited non-empty tokens of a text: the places
\* where a token starts.
WordsOf(s) ==
    Cardinality({i \in 1 .. Len(s) :
                    s[i].ch # " " /\ (i = 1 \/ s[i - 1].ch = " ")})

\* UTF-8 decoding that drops what is invalid.
ValidPart(b) ==
    LET keep[i \in 0 .. Len(b)] ==
            IF i = 0 THEN <<>>
            ELSE IF b[i].ch = "xff" THEN keep[i - 1] ELSE Append(keep[i - 1], b[i])
    IN  keep[Len(b)]

\* Whether a request is one whose input the claims speak of: every request
\* but a JSON body that is a non-empty array, or whose content is not text.
HasStatedInput(req) ==
    req.kind = "json" =>
        /\ req.body.type # "array"
        /\ (req.body.type = "object" /\ "content" \in DOMAIN req.body.fields)
              => req.body.fields["content"].type = "string"

\* The fields of a JSON body; none when the body is not an object.
FieldsOf(body) == IF body.type = "object" THEN body.fields ELSE <<>>

\* Input resolution as C10 states it: JSON body, then the file named "file",
\* then the raw body, where an empty body becomes "Sample document".
OriginalInput(req) ==
    IF req.kind = "json"
    THEN [content |-> IF "content" \in DOMAIN FieldsOf(req.body)
                      THEN FieldsOf(req.body)["content"].s ELSE <<>>,
          filename |-> IF "filename" \in DOMAIN FieldsOf(req.body)
                       THEN FieldsOf(req.body)["filename"] ELSE "document.txt",
          rejected |-> FALSE]
    ELSE IF req.kind = "form" /\ "file" \in DOMAIN req.files
    THEN [content |-> ValidPart(req.files["file"].bytes),
          filename |-> req.files["file"].filename,
          rejected |-> FALSE]
    ELSE LET raw == IF req.kind = "raw" THEN ValidPart(req.data) ELSE <<>>
         IN  [content |-> IF raw = <<>> THEN SampleDocument ELSE raw,
              filename |-> "document.txt",
              rejected |-> FALSE]

\* Input resolution as amended: a request that carries file parts is
\* rejected unless the part named "file" has a non-empty file name, and only
\* a request without file parts falls through to the raw body.
StatedInput(req) ==
    IF req.kind = "form" /\ DOMAIN req.files # {}
       /\ ("file" \notin DOMAIN req.files \/ req.files["file"].filename = "")
    THEN [rejected |-> TRUE]
    ELSE OriginalInput(req)

\* The statistics C6 states for a content.
StatedStatistics(c) ==
    [character_count |-> CharsOf(c), word_count |-> WordsOf(c),
     size_bytes |-> BytesOf(c)]

\* A content above the size limit.
Oversize(c) == BytesOf(c) > 10 * 1024 * 1024

\* The response of deployment 1 answers POST /process.
Processed == resp[1].op = "process"

\* The response of deployment 1 answers GET /documents/<doc_id>.
Fetched == resp[1].op = "get"

\* The file of a document id holds a complete record.
Complete(docId) ==
    /\ JsonName(docId) \in DOMAIN files[1]
    /\ JsonLoad(files[1][JsonName(docId)].data).ok

\* C1, as stated: once POST /process has answered 200 with storage.saved
\* true for an id, every later GET /documents/<id> answers 200 with an
\* object equal to the whole object that POST returned.
C1_RoundTripFull ==
    (Fetched /\ resp[1].arg \in DOMAIN posted[1]) =>
        /\ resp[1].status = 200
        /\ resp[1].body = posted[1][resp[1].arg]

\* C1, amended: once POST /process has answered 200 with storage.saved true
\* for an id, every later GET /documents/<id> answers 200 with the object
\* that POST returned less its top-level storage field, which is never part
\* of the stored record.
C1_RoundTripWithoutStorage ==
    (Fetched /\ resp[1].arg \in DOMAIN posted[1]) =>
        /\ resp[1].status = 200
        /\ "storage" \in DOMAIN posted[1][resp[1].arg]
        /\ "storage" \notin DOMAIN resp[1].body
        /\ resp[1].body = Without(posted[1][resp[1].arg], "storage")

\* A saved document is fetched after a second document was stored.
C1_Witness ==
    /\ Fetched
    /\ resp[1].arg \in DOMAIN posted[1]
    /\ Cardinality(DOMAIN files[1]) > 1

\* C2: a content whose UTF-8 size is above MAX_DOCUMENT_SIZE_MB * 1024 * 1024
\* bytes is answered 413, from whichever source it came, and leaves no file
\* and no record behind; a content of the limit or less is not answered 413.
C2_OversizeRejected ==
    /\ (Processed /\ HasStatedInput(resp[1].arg)
            /\ ~StatedInput(resp[1].arg).rejected) =>
          /\ resp[1].status = 413 <=> Oversize(StatedInput(resp[1].arg).content)
          /\ resp[1].status = 413 =>
                DOMAIN files[1] = {} /\ DOMAIN pending[1] = {}
    /\ \A id \in DOMAIN pending[1] :
          ~Oversize(StatedInput(pending[1][id].req).content)

\* An uploaded file above the limit was answered 413.
C2_Witness ==
    /\ Processed
    /\ resp[1].status = 413
    /\ resp[1].arg.kind = "form"

\* C3: for an accepted content POST /process answers 200 whatever storage
\* does: when the directory cannot be created, with storage = {saved: false,
\* reason: "Storage not available"} and no file written; when the directory
\* is there and the write fails, with storage.saved false and storage.error
\* set; and the document id, statistics and analysis are returned all the same.
C3_StorageFailuresNotFatal ==
    (Processed /\ HasStatedInput(resp[1].arg)
        /\ ~StatedInput(resp[1].arg).rejected
        /\ ~Oversize(StatedInput(resp[1].arg).content)) =>
        /\ resp[1].status = 200
        /\ resp[1].body.document_id = Uuids[nextId - 1]
        /\ resp[1].body.statistics =
              StatedStatistics(StatedInput(resp[1].arg).content)
        /\ resp[1].body.analysis = Analysis
        /\ ~dirExists =>
              /\ resp[1].body.storage =
                    [saved |-> FALSE, reason |-> "Storage not available"]
              /\ DOMAIN files[1] = {}
        /\ (dirExists /\ ~Complete(<<resp[1].body.document_id>>)) =>
              /\ resp[1].body.storage.saved = FALSE
              /\ "error" \in DOMAIN resp[1].body.storage
              /\ resp[1].body.storage.error # ""

\* The directory exists, the write failed, and the record was returned.
C3_Witness ==
    /\ Processed
    /\ resp[1].status = 200
    /\ dirExists
    /\ ~resp[1].body.storage.saved

\* C4: a form submission without a file part named "file" is answered 400
\* with {"error": "No file provided"} and creates no record file, whether it
\* carries no file part at all or only parts under other names.
C4_NoFileRejected ==
    /\ (Processed /\ resp[1].arg.kind = "form"
            /\ "file" \notin DOMAIN resp[1].arg.files) =>
          /\ resp[1].status = 400
          /\ resp[1].body = [error |-> "No file provided"]
          /\ DOMAIN files[1] = {}
    /\ \A id \in DOMAIN pending[1] :
          ~(pending[1][id].req.kind = "form"
                /\ "file" \notin DOMAIN pending[1][id].req.files)

\* C5: GET /documents/<id> answers 404 with {"error": "Document not found"}
\* exactly when <id>.json is not in the storage directory: an id that no
\* POST /process has saved is answered 404, and an id that one has saved
\* never is.
C5_NotFoundIffNeverSaved ==
    Fetched =>
        /\ resp[1].status = 404 <=> JsonName(resp[1].arg) \notin DOMAIN files[1]
        /\ resp[1].status = 404 => resp[1].body = [error |-> "Document not found"]
        /\ resp[1].arg \notin DOMAIN posted[1] => resp[1].status = 404
        /\ resp[1].arg \in DOMAIN posted[1] => resp[1].status # 404

\* C6: the record of an accepted content counts its characters, its
\* whitespace-delimited tokens and the bytes of its UTF-8 encoding, and its
\* analysis section is the one fixed value.
C6_Statistics ==
    /\ (Processed /\ resp[1].status = 200) =>
          /\ HasStatedInput(resp[1].arg)
          /\ ~StatedInput(resp[1].arg).rejected
          /\ resp[1].body.statistics =
                StatedStatistics(StatedInput(resp[1].arg).content)
          /\ resp[1].body.analysis = Analysis
    /\ \A id \in DOMAIN pending[1] :
          /\ pending[1][id].result.statistics =
                StatedStatistics(StatedInput(pending[1][id].req).content)
          /\ pending[1][id].result.analysis = Analysis

\* A record of an uploaded text whose bytes outnumber its characters.
C6_Witness ==
    /\ Processed
    /\ resp[1].status = 200
    /\ resp[1].arg.kind = "form"
    /\ resp[1].body.statistics.word_count = 1
    /\ resp[1].body.statistics.size_bytes > resp[1].body.statistics.character_count

\* C7: GET /documents lists one entry per file whose name ends in ".json",
\* count is their number, each document_id is the file name less its
\* trailing ".json" alone, and so GET /documents/<document_id> of a listed
\* id is not answered 404.
C7_ListedIdsResolve ==
    (resp[1].op = "list" /\ "count" \in DOMAIN resp[1].body) =>
        LET docs == resp[1].body.documents
            jsonFiles == {n \in DOMAIN files[1] : n # <<>> /\ n[Len(n)] = ".json"}
        IN  /\ resp[1].body.count = Cardinality(jsonFiles)
            /\ \A n \in jsonFiles : \E e \in DOMAIN docs :
                  docs[e].document_id = SubSeq(n, 1, Len(n) - 1)
            /\ \A e \in DOMAIN docs :
                  GetResponse(files[1], docs[e].document_id).status # 404

\* Whether a key is non-empty after trimming whitespace.
KeyNonEmptyAfterTrim(k) == k.set /\ \E i \in 1 .. Len(k.v) : k.v[i] # " "

\* C8: two deployments whose keys are both non-empty after trimming, or
\* both not, answer every request alike and store the same files; and the
\* flag they report is true exactly when the key is non-empty after trimming.
C8_KeyNotRevealed ==
    /\ KeyNonEmptyAfterTrim(key[1]) = KeyNonEmptyAfterTrim(key[2]) =>
          /\ resp[1] = resp[2]
          /\ files[1] = files[2]
          /\ pending[1] = pending[2]
    /\ \A d \in Deployments :
          (resp[d].op = "root"
              \/ (resp[d].op \in {"process", "get"} /\ resp[d].status = 200)) =>
             resp[d].body.secrets.embeddings_api_key_configured
                = KeyNonEmptyAfterTrim(key[d])

\* Two different keys, both set, and a stored record read back.
C8_Witness ==
    /\ key[1] # key[2]
    /\ KeyNonEmptyAfterTrim(key[1])
    /\ KeyNonEmptyAfterTrim(key[2])
    /\ Fetched
    /\ resp[1].status = 200

\* C9: whatever the interleaving of a POST /process that saves an id with a
\* GET of that id, the GET answers 404 or 200 with the complete record, and
\* never 500 for a file that is created but not fully written.
C9_GetSeesNoPartialFile ==
    Fetched =>
        \/ resp[1].status = 404
        \/ resp[1].status = 200 /\ "processing_config" \in DOMAIN resp[1].body

====
